---- MODULE Spec2Model ----
(***************************************************************************)
(* Model of the 2021 day 19 notebook: the orientation table (_rotations),  *)
(* the Scanner class (distances, orientations, __and__), the alignment     *)
(* driver BeaconMap.positioned_scanners, positioned_beacons and            *)
(* max_distance; and of the 2021 day 15 notebook: the A* search            *)
(* Cavern.lowest_total_risk over Node.cost and Node.transitions.           *)
(*                                                                         *)
(* A point is a tuple <<x, y, z>>; a Scanner is a record                   *)
(* [beacons |-> sequence of points, position |-> point].  Python indexes   *)
(* beacons from 0, and the index values matter (they are hashed into the   *)
(* index sets of the distance map), so beacon indices keep their Python    *)
(* value i and are read as beacons[i + 1].                                 *)
(***************************************************************************)
EXTENDS Integers, Sequences, FiniteSets, TLC

VARIABLES
    scanners,      \* BeaconMap.scanners: the input list
    to_position,   \* positioned_scanners: deque of scanners without a position
    positioned,    \* positioned_scanners: list of placed scanners
    pc,            \* position of the driver: "start", "loop", "done", or "idle"
    origin,        \* history: origin[k] = index in scanners of the input behind positioned[k]
    queued,        \* history: queued[k] = index in scanners of to_position[k]
    parent,        \* history: parent[k] = index in positioned of the cloud positioned[k] matched (0: the seed)
    misses,        \* history: consecutive loop iterations that placed nothing, counted up to MaxMisses
    tick,          \* history: parity of the number of loop iterations executed
    run,           \* which of the two compared driver runs is executing (1 or 2)
    first_run,     \* summary of run 1: [beacons |-> len(positioned_beacons), spread |-> max_distance]
    mself,         \* matcher harness: the candidate operand (self)
    mother,        \* matcher harness: the placed operand (other)
    mres,          \* matcher harness: result of self & other
    mrev,          \* matcher harness: result of other & self
    mpc,           \* matcher harness: "call", "returned", "reversed" or "idle"
    ra, rb, rc,    \* orientation table harness: two table indices and the index of their composition
    dorig,         \* distance harness: a cloud
    dturn,         \* distance harness: index of the table entry the cloud is turned by
    dshift,        \* distance harness: the translation the turned cloud is moved by
    dist_orig,     \* distance harness: Scanner(dorig).distances
    dist_moved,    \* distance harness: the distances of the turned and moved cloud
    dpc,           \* distance harness: "derive", "derived", "moved" or "idle"
    cavern,        \* Cavern._matrix: rows of risks, cavern[y + 1][x + 1] is the risk at (x, y)
    open,          \* lowest_total_risk: the set of nodes pushed and not yet popped
    pqueue,        \* lowest_total_risk: the heap, as the set of its entries <<cost, unique, node>>
    closed,        \* lowest_total_risk: the set of nodes popped and expanded
    risks,         \* lowest_total_risk: map from position to the lowest risk seen there
    unique,        \* lowest_total_risk: next value of the tie-breaking counter
    total_risk,    \* the value lowest_total_risk returned, -1 before it returns
    apc            \* position of the search: "start", "loop", "returned", "none", "error" or "idle"

vars == <<scanners, to_position, positioned, pc, origin, queued, parent, misses, tick, run,
          first_run, mself, mother, mres, mrev, mpc, ra, rb, rc,
          dorig, dturn, dshift, dist_orig, dist_moved, dpc,
          cavern, open, pqueue, closed, risks, unique, total_risk, apc>>

-----------------------------------------------------------------------------
(* Constants of the program *)

\* MIN_BEACONS_IN_COMMON
MIN_BEACONS_IN_COMMON == 12

\* MIN_COMMON_DISTANCES = math.comb(MIN_BEACONS_IN_COMMON, 2)
MIN_COMMON_DISTANCES == (MIN_BEACONS_IN_COMMON * (MIN_BEACONS_IN_COMMON - 1)) \div 2

-----------------------------------------------------------------------------
(* Small helpers standing for Python / numpy built-ins *)

Abs(x) == IF x < 0 THEN -x ELSE x

Max(S) == CHOOSE x \in S : \A y \in S : y <= x

Sign(x) == IF x > 0 THEN 1 ELSE IF x < 0 THEN -1 ELSE 0

Range(s) == {s[k] : k \in DOMAIN s}

\* sum of the naturals f[x] over the finite set S
SetSum(f, S) == Cardinality({<<x, k>> \in S \X (1..Max({0} \cup {f[x] : x \in S})) : k <= f[x]})

\* the elements of a finite set of integers in ascending order
Ascending(S) ==
    [r \in 1..Cardinality(S) |-> CHOOSE x \in S : Cardinality({y \in S : y <= x}) = r]

\* numpy.argmax: the first (1-based here) index holding the maximum
ArgMax(counts) ==
    CHOOSE o \in DOMAIN counts :
        /\ \A q \in DOMAIN counts : counts[q] <= counts[o]
        /\ \A q \in DOMAIN counts : q < o => counts[q] < counts[o]

-----------------------------------------------------------------------------
(* _rotations: the orientation table *)

\* list(permutations(range(3))), in itertools' lexicographic order
Permutations3 == << <<0, 1, 2>>, <<0, 2, 1>>, <<1, 0, 2>>,
                    <<1, 2, 0>>, <<2, 0, 1>>, <<2, 1, 0>> >>

\* np.array([-1, 1])[np.stack(np.meshgrid(*([np.arange(2)] * 3)), axis=-1).reshape(-1, 3)]
\* meshgrid's default "xy" indexing makes entry (i, j, k) equal (j, i, k), rows in (i, j, k) order
SignRows == << <<-1, -1, -1>>, <<-1, -1, 1>>, <<1, -1, -1>>, <<1, -1, 1>>,
               <<-1, 1, -1>>, <<-1, 1, 1>>, <<1, 1, -1>>, <<1, 1, 1>> >>

\* np.repeat(signs, 6, axis=0), np.tile(rows, (8, 1)): candidate n (1..48) pairs
\* sign row (n-1) div 6 with permutation (n-1) mod 6
CandSigns(n) == SignRows[((n - 1) \div 6) + 1]
CandRows(n) == Permutations3[((n - 1) % 6) + 1]

\* rowsparity: product of sign(rows[tx] - rows[ty]) over np.tril_indices(3, -1)
RowsParity(r) == Sign(r[2] - r[1]) * Sign(r[3] - r[1]) * Sign(r[3] - r[2])

\* signsparity: np.prod(signs[:, :3], axis=1)
SignsParity(s) == s[1] * s[2] * s[3]

\* KeepCandidate with the parity test inverted
KeepOddCandidate(n) == RowsParity(CandRows(n)) # SignsParity(CandSigns(n))

\* the mask rowsparity == signsparity
KeepCandidate(n) == RowsParity(CandRows(n)) = SignsParity(CandSigns(n))

\* (signs[:, :, None] * eye)[arange(count)[:, None], rows]: row k of the matrix is
\* row rows[k] of diag(signs); only the 3x3 part is kept, the fourth row and column
\* are those of the identity
MatrixRow(s, r, k) ==
    <<IF r[k] = 0 THEN s[1] ELSE 0, IF r[k] = 1 THEN s[2] ELSE 0, IF r[k] = 2 THEN s[3] ELSE 0>>

RotationMatrix(s, r) == <<MatrixRow(s, r, 1), MatrixRow(s, r, 2), MatrixRow(s, r, 3)>>

\* the candidates the mask keeps, in their order
Kept == Ascending({n \in 1..48 : KeepCandidate(n)})

\* ROTATIONS = _rotations()
ROTATIONS == [m \in DOMAIN Kept |-> RotationMatrix(CandSigns(Kept[m]), CandRows(Kept[m]))]

\* NOR = ROTATIONS.shape[0]
NOR == Len(ROTATIONS)

\* v @ M for a row vector v
Apply(M, v) == <<v[1] * M[1][1] + v[2] * M[2][1] + v[3] * M[3][1],
                 v[1] * M[1][2] + v[2] * M[2][2] + v[3] * M[3][2],
                 v[1] * M[1][3] + v[2] * M[2][3] + v[3] * M[3][3]>>

\* matrix product A @ B: applying the result equals applying A and then B
Compose(A, B) == <<Apply(B, A[1]), Apply(B, A[2]), Apply(B, A[3])>>

Det(M) == M[1][1] * (M[2][2] * M[3][3] - M[2][3] * M[3][2])
        - M[1][2] * (M[2][1] * M[3][3] - M[2][3] * M[3][1])
        + M[1][3] * (M[2][1] * M[3][2] - M[2][2] * M[3][1])

Identity3 == << <<1, 0, 0>>, <<0, 1, 0>>, <<0, 0, 1>> >>

-----------------------------------------------------------------------------
(* Scanner *)

Add(a, b) == <<a[1] + b[1], a[2] + b[2], a[3] + b[3]>>
Sub(a, b) == <<a[1] - b[1], a[2] - b[2], a[3] - b[3]>>
Zero3 == <<0, 0, 0>>

\* Scanner(beacons, position)
Scanner(beacons, position) == [beacons |-> beacons, position |-> position]

\* Dist2 with the three axes weighted differently
Dist2Skewed(a, b) == (a[1] - b[1]) * (a[1] - b[1])
                     + 2 * (a[2] - b[2]) * (a[2] - b[2])
                     + 3 * (a[3] - b[3]) * (a[3] - b[3])

\* pdist of one pair.  The source keys the map by the float64 Euclidean distance;
\* the key here is its square, an exact integer: sqrt is injective on the integers
\* that occur (all below 2^52), so equal keys there are equal keys here.
Dist2(a, b) == (a[1] - b[1]) * (a[1] - b[1]) + (a[2] - b[2]) * (a[2] - b[2])
             + (a[3] - b[3]) * (a[3] - b[3])

\* combinations(range(n), 2) as a set of pairs of Python indices; the pair <<i, j>>
\* comes before <<k, l>> in the iteration when i < k, or i = k and j < l
Combos(n) == {p \in (0..(n - 1)) \X (0..(n - 1)) : p[1] < p[2]}

Before(p, q) == p[1] < q[1] \/ (p[1] = q[1] /\ p[2] <= q[2])

\* pdist(self.beacons), as a map from the pair of indices to its distance
pdist(b) == [p \in Combos(Len(b)) |-> Dist2(b[p[1] + 1], b[p[2] + 1])]

\* CPython's set of small ints: slot of key v in a table of 8 (set_add_entry with
\* mask 7: no linear probing since i + LINEAR_PROBES > mask; the next slot is
\* (5 i + 1 + perturb) & 7 with perturb shifted right by 5 before each use)
RECURSIVE Probe(_, _, _)
Probe(table, i, perturb) ==
    IF table[i] = -1 THEN i
    ELSE LET p == perturb \div 32
         IN Probe(table, (5 * i + 1 + p) % 8, p)

EmptyTable == [i \in 0..7 |-> -1]

\* the table after the keys of seq (distinct) were added in order
RECURSIVE TableOf(_, _)
TableOf(table, seq) ==
    IF seq = <<>> THEN table
    ELSE LET v == Head(seq)
         IN TableOf([table EXCEPT ![Probe(table, v % 8, v)] = v], Tail(seq))

RECURSIVE TableOrder(_, _)
TableOrder(table, i) ==
    IF i > 7 THEN <<>>
    ELSE (IF table[i] = -1 THEN <<>> ELSE <<table[i]>>) \o TableOrder(table, i + 1)

\* keys of seq without repetitions, in order of first occurrence
RECURSIVE Distinct(_, _)
Distinct(seq, seen) ==
    IF seq = <<>> THEN <<>>
    ELSE IF Head(seq) \in seen THEN Distinct(Tail(seq), seen)
    ELSE <<Head(seq)>> \o Distinct(Tail(seq), seen \cup {Head(seq)})

\* iteration order of the set built by set(pair) and then update(pair) for the
\* pairs of seq in order.  Up to 4 keys the table has 8 slots; the fifth key
\* resizes it to 32 slots (later to 128), where every index below 32 sits in its
\* own slot, so the order is ascending.  Clouds have at most 32 beacons.
SetOrder(seq) ==
    LET keys == Distinct(seq, {})
    IN IF Len(keys) >= 5 THEN Ascending(Range(keys))
       ELSE TableOrder(TableOf(EmptyTable, keys), 0)

\* the indices of the pairs at distance d, flattened, in pdist order
PairsAt(pd, d) ==
    LET at == {p \in DOMAIN pd : pd[p] = d}
        nth(r) == CHOOSE p \in at : Cardinality({q \in at : Before(q, p)}) = r
    IN [x \in 1..(2 * Cardinality(at)) |-> nth((x + 1) \div 2)[2 - (x % 2)]]

\* Scanner.distances: map from distance to the set of indices of the beacons in a
\* pair at that distance; each set is given as the sequence of its iteration order
distances(b) ==
    LET pd == pdist(b)
    IN [d \in {pd[p] : p \in DOMAIN pd} |-> SetOrder(PairsAt(pd, d))]

\* Scanner.orientations: orientations[o][k] is beacon k under table entry o
orientations(b) == [o \in 1..NOR |-> [k \in 1..Len(b) |-> Apply(ROTATIONS[o], b[k])]]

\* the optional result of __and__: <<>> is None, <<s>> is the Scanner s
None == <<>>
Some(s) == <<s>>

\* sum(len(self.distances[d]) // 2 for d in shared)
CommonDistances(sd, shared) == SetSum([d \in shared |-> Len(sd[d]) \div 2], shared)

\* offsets = reference - self.orientations[:, i]
Offsets(so, i, reference) == [o \in 1..NOR |-> Sub(reference, so[o][i + 1])]

\* repositioned = self.orientations + offsets[:, None, :]
Repositioned(so, offsets) ==
    [o \in 1..NOR |-> [k \in DOMAIN so[o] |-> Add(so[o][k], offsets[o])]]

\* values.shape[0]: the number of unique vectors among other.beacons and all the
\* repositioned beacons
UniqueValues(ob, repositioned) ==
    Cardinality(Range(ob) \cup
                {repositioned[x[1]][x[2]] : x \in (DOMAIN repositioned) \X (DOMAIN repositioned[1])})

\* one row of (obvmembers @ rvmembers.T).T.sum(axis=-1): the number of beacons of
\* other equal to the vector p
Matches(ob, oset, p) ==
    IF p \in oset THEN Cardinality({m \in DOMAIN ob : ob[m] = p}) ELSE 0

RECURSIVE CountFrom(_, _, _, _)
CountFrom(ob, oset, cloud, k) ==
    IF k > Len(cloud) THEN 0
    ELSE Matches(ob, oset, cloud[k]) + CountFrom(ob, oset, cloud, k + 1)

\* counts = matches.reshape(-1, nsb).sum(axis=-1): per orientation, the beacons of
\* the repositioned cloud found among the beacons of other
Counts(ob, repositioned) ==
    LET oset == Range(ob)
    IN [o \in DOMAIN repositioned |-> CountFrom(ob, oset, repositioned[o], 1)]

\* Enough with the threshold one too low
EnoughOffByOne(counts) == \E o \in DOMAIN counts : counts[o] >= MIN_BEACONS_IN_COMMON - 1

\* whether some orientation reaches the threshold: np.any(counts >= MIN_BEACONS_IN_COMMON)
Enough(counts) == \E o \in DOMAIN counts : counts[o] >= MIN_BEACONS_IN_COMMON

\* the loop "for i in own_pairs" of __and__, own_pairs given in iteration order
RECURSIVE TryAnchors(_, _, _, _, _)
TryAnchors(sb, so, ob, reference, own_pairs) ==
    IF own_pairs = <<>> THEN None
    ELSE LET i == Head(own_pairs)
             offsets == Offsets(so, i, reference)
             repositioned == Repositioned(so, offsets)
             nsr == Len(sb) * NOR
             nob == Len(ob)
         IN IF UniqueValues(ob, repositioned) > nsr + nob - 12
            THEN TryAnchors(sb, so, ob, reference, Tail(own_pairs))
            ELSE LET counts == Counts(ob, repositioned)
                 IN IF ~Enough(counts)
                    THEN TryAnchors(sb, so, ob, reference, Tail(own_pairs))
                    ELSE LET orientation == ArgMax(counts)
                         IN Some(Scanner(repositioned[orientation],
                                         Sub(reference, so[orientation][i + 1])))

\* __and__ from "distance = next(iter(shared))" on, for the distance that the
\* iteration of shared yields first
AndAt(sb, so, ob, sd, od, distance) ==
    LET reference == ob[Head(od[distance]) + 1]
        own_pairs == sd[distance]
    IN TryAnchors(sb, so, ob, reference, own_pairs)

\* Scanner.__and__(self, other): the set of results it can return.  shared is a
\* set of floats, whose iteration order is a matter of CPython's hashing of the
\* float keys: every element of shared may be the one next(iter(shared)) yields.
And(self, other) ==
    LET sd == distances(self.beacons)
        od == distances(other.beacons)
        shared == (DOMAIN sd) \cap (DOMAIN od)
        so == orientations(self.beacons)
    IN IF CommonDistances(sd, shared) < MIN_COMMON_DISTANCES
       THEN {None}
       ELSE {AndAt(self.beacons, so, other.beacons, sd, od, d) : d \in shared}

-----------------------------------------------------------------------------
(* Input clouds of the checks *)

\* the cloud with every beacon turned by table entry o and moved by t: the same
\* beacons seen by a scanner in another position and orientation
Transform(cloud, o, t) == [k \in DOMAIN cloud |-> Add(Apply(ROTATIONS[o], cloud[k]), t)]

\* largest scanner displacement tried, in units of Step3
MaxShift == 1

Step3 == <<3, -5, 7>>

Shifts == {<<s * Step3[1], s * Step3[2], s * Step3[3]>> : s \in 0..MaxShift}

\* 13 beacons whose 78 pairwise distances all differ
F0 ==
    << <<13, 6, 12>>, <<14, 6, 0>>, <<4, 8, 7>>, <<6, 14, 12>>, <<13, 4, 7>>, <<5, 9, 14>>, <<2, 4, 2>>, <<12, 4, 14>>, <<9, 14, 2>>, <<0, 12, 14>>, <<14, 7, 1>>, <<9, 1, 11>>, <<14, 7, 14>> >>

\* 12 beacons of F0 in another order and one beacon of its own; all distances differ
C12 ==
    << <<14, 7, 1>>, <<4, 8, 7>>, <<9, 1, 11>>, <<12, 4, 14>>, <<14, 6, 0>>, <<6, 14, 12>>, <<2, 4, 2>>, <<13, 6, 12>>, <<9, 14, 2>>, <<5, 9, 14>>, <<13, 4, 7>>, <<0, 12, 14>>, <<7, 10, 14>> >>

\* 11 beacons of F0 and two of its own; all distances differ
C11 ==
    << <<13, 6, 12>>, <<14, 6, 0>>, <<4, 8, 7>>, <<6, 14, 12>>, <<13, 4, 7>>, <<5, 9, 14>>, <<2, 4, 2>>, <<12, 4, 14>>, <<9, 14, 2>>, <<0, 12, 14>>, <<14, 7, 1>>, <<7, 10, 14>>, <<0, 1, 1>> >>

\* a cloud in a small box, where distances repeat
D11F ==
    << <<4, 1, 4>>, <<2, 5, 1>>, <<0, 3, 5>>, <<2, 4, 4>>, <<6, 0, 2>>, <<1, 4, 0>>, <<3, 6, 1>>, <<1, 6, 6>>, <<2, 6, 3>>, <<4, 2, 6>>, <<4, 1, 1>>, <<0, 6, 5>>, <<3, 0, 5>> >>

\* 11 beacons of D11F and two of its own: 66 common distances are counted, 11 beacons are common
D11C ==
    << <<4, 1, 4>>, <<2, 5, 1>>, <<0, 3, 5>>, <<2, 4, 4>>, <<6, 0, 2>>, <<1, 4, 0>>, <<3, 6, 1>>, <<1, 6, 6>>, <<2, 6, 3>>, <<4, 2, 6>>, <<4, 1, 1>>, <<1, 2, 0>>, <<0, 2, 4>> >>

\* 12 beacons on a line, one unit apart
L ==
    << <<0, 0, 0>>, <<1, 0, 0>>, <<2, 0, 0>>, <<3, 0, 0>>, <<4, 0, 0>>, <<5, 0, 0>>, <<6, 0, 0>>, <<7, 0, 0>>, <<8, 0, 0>>, <<9, 0, 0>>, <<10, 0, 0>>, <<11, 0, 0>> >>

\* 12 beacons of which two pairs are equally far apart (an isosceles triangle), and a 13th beacon that repeats a distance of the twelve
AsymA ==
    << <<13, 6, 12>>, <<14, 6, 0>>, <<4, 8, 7>>, <<6, 14, 12>>, <<13, 4, 7>>, <<5, 9, 14>>, <<2, 4, 2>>, <<12, 4, 14>>, <<9, 14, 2>>, <<0, 12, 14>>, <<14, 7, 1>>, <<0, 7, 1>>, <<12, 6, 2>> >>

\* the 12 beacons of AsymA and a 13th that repeats no distance
AsymB ==
    << <<13, 6, 12>>, <<14, 6, 0>>, <<4, 8, 7>>, <<6, 14, 12>>, <<13, 4, 7>>, <<5, 9, 14>>, <<2, 4, 2>>, <<12, 4, 14>>, <<9, 14, 2>>, <<0, 12, 14>>, <<14, 7, 1>>, <<0, 7, 1>>, <<10, 0, 2>> >>

\* 12 beacons of C12 and one more: 12 in common with C12, 11 with F0
G ==
    << <<4, 8, 7>>, <<9, 1, 11>>, <<12, 4, 14>>, <<14, 6, 0>>, <<6, 14, 12>>, <<2, 4, 2>>, <<13, 6, 12>>, <<9, 14, 2>>, <<5, 9, 14>>, <<13, 4, 7>>, <<0, 12, 14>>, <<7, 10, 14>>, <<4, 14, 1>> >>

\* SymA and SymB have 12 beacons in common, and those 12 are mapped onto themselves
\* by the half turn about the vertical axis through x = 4, y = 6
SymA ==
    << <<-8, -4, 21>>, <<29, 13, 16>>, <<14, 18, 19>>, <<0, -6, 14>>, <<16, 16, 21>>, <<-8, 2, 0>>, <<8, 18, 14>>, <<-8, -2, 10>>, <<16, 14, 10>>, <<-6, -6, 19>>, <<-4, -6, 21>>, <<12, 18, 21>>, <<16, 10, 0>> >>

SymB ==
    << <<-6, -6, 19>>, <<14, 18, 19>>, <<12, 18, 21>>, <<-4, -6, 21>>, <<-8, 2, 0>>, <<0, -6, 14>>, <<8, 18, 14>>, <<21, 10, 26>>, <<16, 14, 10>>, <<-8, -4, 21>>, <<16, 10, 0>>, <<-8, -2, 10>>, <<16, 16, 21>> >>

\* the table entry that is the identity
IdentityIndex == CHOOSE o \in 1..NOR : ROTATIONS[o] = Identity3

\* pairs <<other, self>> tried with self in every orientation, shifted by Step3
TurnedCases == { <<F0, C12>>, <<F0, C11>>, <<L, L>> }

\* pairs <<other, self>> tried with self shifted only
ShiftedCases == { <<F0, F0>>, <<L, L>>, <<D11F, D11C>>, <<AsymB, AsymA>>, <<AsymA, AsymB>> }

\* the pairs <<other, self>> the matcher is applied to
MatchInputs ==
    {<<c[1], Transform(c[2], o, Step3)>> : c \in TurnedCases, o \in 1..NOR}
    \cup {<<c[1], Transform(c[2], IdentityIndex, t)>> : c \in ShiftedCases, t \in Shifts}

-----------------------------------------------------------------------------
(* The matcher applied to a pair of clouds: self & other, then other & self *)

NoSummary == [beacons |-> 0, spread |-> 0]

DriverIdle ==
    /\ scanners = <<>> /\ to_position = <<>> /\ positioned = <<>> /\ pc = "idle"
    /\ origin = <<>> /\ queued = <<>> /\ parent = <<>> /\ misses = 0 /\ tick = 0
    /\ run = 0 /\ first_run = NoSummary

MatcherIdle ==
    /\ mself = Scanner(<<>>, Zero3) /\ mother = Scanner(<<>>, Zero3)
    /\ mres = None /\ mrev = None /\ mpc = "idle"

TableIdle == ra = 0 /\ rb = 0 /\ rc = 0

driverVars == <<scanners, to_position, positioned, pc, origin, queued, parent, misses, tick,
                run, first_run>>
matcherVars == <<mself, mother, mres, mrev, mpc>>
tableVars == <<ra, rb, rc>>
distVars == <<dorig, dturn, dshift, dist_orig, dist_moved, dpc>>

searchVars == <<cavern, open, pqueue, closed, risks, unique, total_risk, apc>>

SearchIdle ==
    /\ cavern = <<>> /\ open = {} /\ pqueue = {} /\ closed = {} /\ risks = <<>>
    /\ unique = 0 /\ total_risk = -1 /\ apc = "idle"

DistIdle ==
    /\ dorig = <<>> /\ dturn = 0 /\ dshift = Zero3
    /\ dist_orig = <<>> /\ dist_moved = <<>> /\ dpc = "idle"

InitMatch ==
    /\ DriverIdle /\ TableIdle /\ DistIdle /\ SearchIdle
    /\ \E c \in MatchInputs :
          /\ mother = Scanner(c[1], Zero3)
          /\ mself = Scanner(c[2], Zero3)
    /\ mres = None /\ mrev = None /\ mpc = "call"

\* placed = mself & mother
Match ==
    /\ mpc = "call"
    /\ mres' \in And(mself, mother)
    /\ mpc' = "returned"
    /\ UNCHANGED <<mself, mother, mrev, driverVars, tableVars, distVars, searchVars>>

\* the operands exchanged: mother & mself
MatchReversed ==
    /\ mpc = "returned"
    /\ mrev' \in And(mother, mself)
    /\ mpc' = "reversed"
    /\ UNCHANGED <<mself, mother, mres, driverVars, tableVars, distVars, searchVars>>

NextMatch == Match \/ MatchReversed

SpecMatch == InitMatch /\ [][NextMatch]_vars

-----------------------------------------------------------------------------
(* The orientation table: composing two entries *)

\* the index of the table entry equal to M, or -1 when the table has none
IndexOf(M) == IF \E o \in 1..NOR : ROTATIONS[o] = M
              THEN CHOOSE o \in 1..NOR : ROTATIONS[o] = M
              ELSE -1

InitTable ==
    /\ DriverIdle /\ MatcherIdle /\ DistIdle /\ SearchIdle
    /\ ra \in 1..NOR /\ rb \in 1..NOR /\ rc = 0

\* ROTATIONS[ra] @ ROTATIONS[rb]
ComposeEntries ==
    /\ rc = 0
    /\ rc' = IndexOf(Compose(ROTATIONS[ra], ROTATIONS[rb]))
    /\ UNCHANGED <<ra, rb, driverVars, matcherVars, distVars, searchVars>>

NextTable == ComposeEntries

SpecTable == InitTable /\ [][NextTable]_vars

-----------------------------------------------------------------------------
(* BeaconMap.positioned_scanners, positioned_beacons and max_distance *)

\* the clouds of one physical region seen by three scanners: the second and the
\* third are reported turned and shifted
ChainA == F0
ChainB == Transform(C12, 5, <<3, -5, 7>>)
ChainC == Transform(G, 17, <<-4, 2, 6>>)

\* the input lists the driver is run on
DriverInputs ==
    { <<ChainA, ChainB, ChainC>>, <<ChainA, ChainC, ChainB>>, <<ChainC, ChainA, ChainB>>,
      <<ChainB, ChainA, ChainC>>, <<ChainB, ChainC, ChainA>>, <<ChainC, ChainB, ChainA>>,
      <<D11F, D11C>>, <<ChainA, ChainB, D11C>>, <<D11C, ChainA, ChainB>>,
      <<D11C, D11F>>, <<ChainB, D11C, ChainA>>,
      <<AsymA, AsymB>>, <<AsymB, AsymA>>,
      <<SymA, SymB>>, <<SymB, SymA>> }

\* bound on the history counter of iterations that placed nothing
MaxMisses == 3

\* for other in positioned: if placed := scanner & other: ... break
\* from the k-th placed scanner on: <<k, placed>> for a first success at k,
\* <<0, None>> when the loop runs to its else branch
RECURSIVE FirstMatch(_, _, _)
FirstMatch(scanner, placed_list, k) ==
    IF k > Len(placed_list)
    THEN {<<0, None>>}
    ELSE LET outs == And(scanner, placed_list[k])
         IN {<<k, r>> : r \in outs \ {None}}
            \cup (IF None \in outs THEN FirstMatch(scanner, placed_list, k + 1) ELSE {})

\* Requeue with the scanner put back at the head of the queue
RequeueFront(rest, scanner) == <<scanner>> \o rest

\* Requeue with the scanner dropped instead of appended
RequeueDropped(rest, scanner) == rest

\* to_position.append(scanner) with the head already popped
Requeue(rest, scanner) == Append(rest, scanner)

\* Place with the new cloud put first in the list
PlaceInFront(list, placed) == <<placed>> \o list

\* positioned.append(placed)
Place(list, placed) == Append(list, placed)

\* {pos for s in positioned_scanners for pos in zip(*s.beacons.T)}
positioned_beacons(ps) == UNION {Range(ps[k].beacons) : k \in DOMAIN ps}

Cityblock(a, b) == Abs(a[1] - b[1]) + Abs(a[2] - b[2]) + Abs(a[3] - b[3])

\* int(pdist([s.position for s in scanners], "cityblock").max()), two scanners or more
max_distance(ps) ==
    Max({Cityblock(ps[p[1] + 1].position, ps[p[2] + 1].position) : p \in Combos(Len(ps))})

Init ==
    /\ MatcherIdle /\ TableIdle /\ DistIdle /\ SearchIdle
    /\ scanners \in {[k \in DOMAIN inp |-> Scanner(inp[k], Zero3)] : inp \in DriverInputs}
    /\ to_position = <<>> /\ positioned = <<>> /\ pc = "start"
    /\ origin = <<>> /\ queued = <<>> /\ parent = <<>> /\ misses = 0 /\ tick = 0
    /\ run = 1 /\ first_run = NoSummary

\* to_position = deque(self.scanners); positioned = [to_position.popleft()]
Seed ==
    /\ pc = "start"
    /\ positioned' = <<Head(scanners)>>
    /\ to_position' = Tail(scanners)
    /\ origin' = <<1>>
    /\ queued' = [k \in 1..(Len(scanners) - 1) |-> k + 1]
    /\ parent' = <<0>>
    /\ misses' = 0 /\ tick' = 0
    /\ pc' = "loop"
    /\ UNCHANGED <<scanners, run, first_run, matcherVars, tableVars, distVars, searchVars>>

\* while to_position
LoopCondition == pc = "loop" /\ to_position # <<>>

\* one iteration of while to_position: popleft, the for loop, append or requeue
Iterate ==
    /\ LoopCondition
    /\ LET scanner == Head(to_position)
       IN \E m \in FirstMatch(scanner, positioned, 1) :
             IF m[2] # None
             THEN /\ positioned' = Place(positioned, m[2][1])
                  /\ to_position' = Tail(to_position)
                  /\ origin' = Append(origin, Head(queued))
                  /\ queued' = Tail(queued)
                  /\ parent' = Append(parent, m[1])
                  /\ misses' = 0
             ELSE /\ to_position' = Requeue(Tail(to_position), scanner)
                  /\ queued' = Requeue(Tail(queued), Head(queued))
                  /\ misses' = IF misses < MaxMisses THEN misses + 1 ELSE misses
                  /\ UNCHANGED <<positioned, origin, parent>>
    /\ tick' = 1 - tick
    /\ UNCHANGED <<scanners, pc, run, first_run, matcherVars, tableVars, distVars, searchVars>>

\* while to_position is false: return positioned
Return ==
    /\ pc = "loop" /\ to_position = <<>>
    /\ pc' = "done"
    /\ UNCHANGED <<scanners, to_position, positioned, origin, queued, parent, misses, tick,
                   run, first_run, matcherVars, tableVars, distVars, searchVars>>

\* the input list with its k-th scanner moved to the front
MoveToFront(seq, k) ==
    <<seq[k]>> \o [j \in 1..(Len(seq) - 1) |-> IF j < k THEN seq[j] ELSE seq[j + 1]]

Summary(ps) == [beacons |-> Cardinality(positioned_beacons(ps)), spread |-> max_distance(ps)]

\* a second BeaconMap over the same clouds with another one first; the summary of
\* the first run is kept for comparison
Reseed ==
    /\ pc = "done" /\ run = 1
    /\ first_run' = Summary(positioned)
    /\ \E k \in 2..Len(scanners) : scanners' = MoveToFront(scanners, k)
    /\ to_position' = <<>> /\ positioned' = <<>> /\ pc' = "start"
    /\ origin' = <<>> /\ queued' = <<>> /\ parent' = <<>> /\ misses' = 0 /\ tick' = 0
    /\ run' = 2
    /\ UNCHANGED <<matcherVars, tableVars, distVars, searchVars>>

Next == Seed \/ Iterate \/ Return \/ Reseed

Spec == Init /\ [][Next]_vars

\* The driver keeps running while it has a step to take.  An iteration always
\* changes tick, so <<Iterate>>_vars is enabled exactly when the loop condition
\* holds, and weak fairness of Iterate is written with that condition.
IterateFairness == []<>(~LoopCondition) \/ []<><<Iterate>>_vars

FairSpec ==
    Init /\ [][Next]_vars /\ WF_vars(Seed \/ Return \/ Reseed) /\ IterateFairness

-----------------------------------------------------------------------------
(* Scanner.distances of a cloud and of the same cloud turned and moved *)

\* the clouds whose distance maps are derived: all distances different (F0),
\* collinear with many equal distances (L), and with some equal distances
DistanceInputs == {F0, L, D11F, AsymB, SymA}

InitDistances ==
    /\ DriverIdle /\ MatcherIdle /\ TableIdle /\ SearchIdle
    /\ dorig \in DistanceInputs
    /\ dturn \in 1..NOR
    /\ dshift \in Shifts
    /\ dist_orig = <<>> /\ dist_moved = <<>> /\ dpc = "derive"

\* Scanner(dorig).distances
Derive ==
    /\ dpc = "derive"
    /\ dist_orig' = distances(dorig)
    /\ dpc' = "derived"
    /\ UNCHANGED <<dorig, dturn, dshift, dist_moved, driverVars, matcherVars, tableVars, searchVars>>

\* Scanner(the cloud turned by ROTATIONS[dturn] and moved by dshift).distances
DeriveMoved ==
    /\ dpc = "derived"
    /\ dist_moved' = distances(Transform(dorig, dturn, dshift))
    /\ dpc' = "moved"
    /\ UNCHANGED <<dorig, dturn, dshift, dist_orig, driverVars, matcherVars, tableVars, searchVars>>

NextDistances == Derive \/ DeriveMoved

SpecDistances == InitDistances /\ [][NextDistances]_vars

-----------------------------------------------------------------------------
(* Day 15: Node, Cavern and the A* search Cavern.lowest_total_risk *)

\* Node(x, y, risk)
Node(x, y, risk) == [x |-> x, y |-> y, risk |-> risk]

\* Node.pos
Pos(node) == <<node.x, node.y>>

\* Cavern._width, Cavern._height and Cavern.target
Width(cav) == Len(cav[1])
Height(cav) == Len(cav)
Target(cav) == <<Width(cav) - 1, Height(cav) - 1>>

\* Cavern.__getitem__
RiskAt(cav, pos) == cav[pos[2] + 1][pos[1] + 1]

\* Cavern.__contains__
Contains(cav, pos) ==
    0 <= pos[1] /\ pos[1] < Width(cav) /\ 0 <= pos[2] /\ pos[2] < Height(cav)

\* Node.cost with the estimate ten times too large
CostGreedy(node, target) ==
    node.risk + 10 * (Abs(target[1] - node.x) + Abs(target[2] - node.y))

\* Node.cost: f(n) = g(n) + h(n), h the manhattan distance to the target
Cost(node, target) == node.risk + Abs(target[1] - node.x) + Abs(target[2] - node.y)

\* the neighbour offsets in the order Node.transitions tries them
Deltas == << <<-1, 0>>, <<0, -1>>, <<0, 1>>, <<1, 0>> >>

\* the offsets, in order, that lead to a position of the cavern
RECURSIVE DeltasInside(_, _, _)
DeltasInside(node, cav, k) ==
    IF k > Len(Deltas) THEN <<>>
    ELSE LET pos == <<node.x + Deltas[k][1], node.y + Deltas[k][2]>>
             rest == DeltasInside(node, cav, k + 1)
         IN IF Contains(cav, pos) THEN <<pos>> \o rest ELSE rest

\* Node.transitions: the neighbours inside the cavern, each with the risk so far
\* plus the risk of entering it
Transitions(node, cav) ==
    LET inside == DeltasInside(node, cav, 1)
    IN [k \in DOMAIN inside |->
           Node(inside[k][1], inside[k][2], node.risk + RiskAt(cav, inside[k]))]

\* the entry heappop returns: the least <<cost, unique>>; unique values differ,
\* so nodes are never compared
HeapMin(pq) ==
    CHOOSE e \in pq : \A f \in pq : e[1] < f[1] \/ (e[1] = f[1] /\ e[2] <= f[2])

\* the body of "for new in node.transitions(self)" from the k-th neighbour on,
\* over the search state st = [open, pqueue, risks, unique]
RECURSIVE Expand(_, _, _, _, _)
Expand(st, news, k, closedNow, target) ==
    IF k > Len(news) THEN st
    ELSE LET new == news[k]
         IN IF new \in closedNow \/ new \in st.open
            THEN Expand(st, news, k + 1, closedNow, target)
            ELSE IF Pos(new) \in DOMAIN st.risks /\ st.risks[Pos(new)] < new.risk
            THEN Expand(st, news, k + 1, closedNow, target)
            ELSE Expand([open |-> st.open \cup {new},
                         pqueue |-> st.pqueue \cup {<<Cost(new, target), st.unique, new>>},
                         risks |-> [p \in DOMAIN st.risks \cup {Pos(new)} |->
                                       IF p = Pos(new) THEN new.risk ELSE st.risks[p]],
                         unique |-> st.unique + 1],
                        news, k + 1, closedNow, target)

\* rows the caverns are built from, 3 wide
CavernRows == { <<1, 1, 1>>, <<9, 9, 1>>, <<1, 9, 9>>, <<1, 5, 2>> }

\* largest number of rows of a cavern
MaxHeight == 5

\* the caverns searched: every stack of 1..MaxHeight rows
CavernInputs == UNION {[1..h -> CavernRows] : h \in 1..MaxHeight}

InitSearch ==
    /\ DriverIdle /\ MatcherIdle /\ TableIdle /\ DistIdle
    /\ cavern \in CavernInputs
    /\ open = {} /\ pqueue = {} /\ closed = {} /\ risks = <<>>
    /\ unique = 0 /\ total_risk = -1 /\ apc = "start"

\* lowest_total_risk up to the while loop
Begin ==
    /\ apc = "start"
    /\ LET start == Node(0, 0, 0)
       IN /\ open' = {start}
          /\ pqueue' = {<<Cost(start, Target(cavern)), 0, start>>}
          /\ risks' = [p \in {Pos(start)} |-> start.risk]
    /\ unique' = 1
    /\ closed' = {}
    /\ apc' = "loop"
    /\ UNCHANGED <<cavern, total_risk, driverVars, matcherVars, tableVars, distVars>>

\* the while loop: its test and one iteration.  Leaving the loop returns None;
\* heappop on an empty heap and open.remove of an absent node raise
SearchStep ==
    /\ apc = "loop"
    /\ IF open = {}
       THEN /\ apc' = "none"
            /\ UNCHANGED <<open, pqueue, closed, risks, unique, total_risk>>
       ELSE IF pqueue = {}
       THEN /\ apc' = "error"
            /\ UNCHANGED <<open, pqueue, closed, risks, unique, total_risk>>
       ELSE LET entry == HeapMin(pqueue)
                node == entry[3]
            IN IF Pos(node) = Target(cavern)
               THEN /\ total_risk' = node.risk
                    /\ apc' = "returned"
                    /\ pqueue' = pqueue \ {entry}
                    /\ UNCHANGED <<open, closed, risks, unique>>
               ELSE IF node \notin open
               THEN /\ apc' = "error"
                    /\ pqueue' = pqueue \ {entry}
                    /\ UNCHANGED <<open, closed, risks, unique, total_risk>>
               ELSE LET st == Expand([open |-> open \ {node},
                                      pqueue |-> pqueue \ {entry},
                                      risks |-> risks,
                                      unique |-> unique],
                                     Transitions(node, cavern), 1,
                                     closed \cup {node}, Target(cavern))
                    IN /\ open' = st.open
                       /\ pqueue' = st.pqueue
                       /\ risks' = st.risks
                       /\ unique' = st.unique
                       /\ closed' = closed \cup {node}
                       /\ UNCHANGED <<total_risk, apc>>
    /\ UNCHANGED <<cavern, driverVars, matcherVars, tableVars, distVars>>

NextSearch == Begin \/ SearchStep

SpecSearch == InitSearch /\ [][NextSearch]_vars

-----------------------------------------------------------------------------
(* Properties of the orientation table *)

\* one nonzero entry, +1 or -1, in every row and every column
SignedPermutation(M) ==
    /\ \A k \in 1..3 : Cardinality({c \in 1..3 : M[k][c] # 0}) = 1
    /\ \A c \in 1..3 : Cardinality({k \in 1..3 : M[k][c] # 0}) = 1
    /\ \A k \in 1..3, c \in 1..3 : M[k][c] \in {-1, 0, 1}

\* C8: the table built by _rotations holds exactly 24 pairwise distinct transforms,
\* each a signed axis permutation of determinant +1, and composing any two
\* entries yields an entry of the table.
C8_TableIsRotationGroup ==
    /\ NOR = 24
    /\ \A o, q \in 1..NOR : o # q => ROTATIONS[o] # ROTATIONS[q]
    /\ SignedPermutation(ROTATIONS[ra]) /\ Det(ROTATIONS[ra]) = 1
    /\ SignedPermutation(ROTATIONS[rb]) /\ Det(ROTATIONS[rb]) = 1
    /\ rc # 0 => /\ rc \in 1..NOR
                 /\ ROTATIONS[rc] = Compose(ROTATIONS[ra], ROTATIONS[rb])

\* two entries, neither the identity, composed into a third entry that is neither
\* of them, and whose composition in the other order differs
C8_Witness ==
    /\ rc \in 1..NOR
    /\ ra # IdentityIndex /\ rb # IdentityIndex
    /\ rc \notin {ra, rb, IdentityIndex}
    /\ Compose(ROTATIONS[rb], ROTATIONS[ra]) # ROTATIONS[rc]

-----------------------------------------------------------------------------
(* Properties of the matcher *)

Returned == mpc \in {"returned", "reversed"}

\* the beacons of cloud found among the beacons of fixed
Coinciding(cloud, fixed) == {k \in DOMAIN cloud : cloud[k] \in Range(fixed)}

\* some table entry followed by some translation makes at least
\* MIN_BEACONS_IN_COMMON beacons of c coincide with beacons of f
CanAlign(c, f) ==
    \E o \in 1..NOR :
        LET oc == [k \in DOMAIN c |-> Apply(ROTATIONS[o], c[k])]
        IN \E t \in {Sub(f[m], oc[k]) : m \in DOMAIN f, k \in DOMAIN c} :
              Cardinality({k \in DOMAIN c : Add(oc[k], t) \in Range(f)})
                  >= MIN_BEACONS_IN_COMMON

DistinctPoints(c) == Cardinality(Range(c)) = Len(c)

\* C1: if some table entry and translation make at least 12 beacons of self
\* coincide with beacons of other, self & other returns a cloud, never None.
C1_Completeness ==
    (Returned /\ CanAlign(mself.beacons, mother.beacons)) => mres # None

\* the number of beacons of c, turned by entry o and moved so that beacon i lands
\* on the point ref, that coincide with beacons of f
CountAt(c, f, o, i, ref) ==
    LET t == Sub(ref, Apply(ROTATIONS[o], c[i]))
    IN Cardinality({k \in DOMAIN c : Add(Apply(ROTATIONS[o], c[k]), t) \in Range(f)})

\* r is c turned by one table entry and moved by r.position, some beacon of c (the
\* anchor) lands on a beacon of f (the reference), no other entry makes more
\* beacons coincide for that anchor and reference, and at least 12 coincide
SoundResult(c, f, r) ==
    \E o \in 1..NOR :
        /\ r.beacons = Transform(c, o, r.position)
        /\ Cardinality(Coinciding(r.beacons, f)) >= MIN_BEACONS_IN_COMMON
        /\ \E i \in DOMAIN c :
              /\ r.beacons[i] \in Range(f)
              /\ r.position = Sub(r.beacons[i], Apply(ROTATIONS[o], c[i]))
              /\ \A q \in 1..NOR :
                    CountAt(c, f, q, i, r.beacons[i]) <= CountAt(c, f, o, i, r.beacons[i])

\* C2: a returned cloud is self under one table entry and one translation, which
\* is its position (reference minus oriented anchor); that entry has the most
\* coincidences among the 24 for the anchor, and at least 12 returned beacons are
\* beacons of other; when no entry and translation reach 12, None is returned.
C2_Soundness ==
    mpc = "returned" =>
        /\ mres # None => SoundResult(mself.beacons, mother.beacons, mres[1])
        /\ ~CanAlign(mself.beacons, mother.beacons) => mres = None

\* a match at the threshold: self turned and moved, exactly 12 beacons coincide
C2_Witness ==
    /\ mpc = "returned" /\ mres # None
    /\ Cardinality(Coinciding(mres[1].beacons, mother.beacons)) = MIN_BEACONS_IN_COMMON
    /\ mres[1].beacons # Transform(mself.beacons, IdentityIndex, mres[1].position)
    /\ mres[1].position # Zero3

\* the pre-filter sum of self & other: over the distances both clouds have,
\* half the number of self's beacons at that distance, rounded down
PrefilterSum(self, other) ==
    LET sd == distances(self.beacons)
        od == distances(other.beacons)
    IN CommonDistances(sd, (DOMAIN sd) \cap (DOMAIN od))

\* C13: when some table entry and translation make at least 12 beacons of self
\* coincide with beacons of other, the pre-filter sum of self & other is at least
\* 66, so the pre-filter does not reject the pair.
C13_PrefilterConservative ==
    (mpc = "returned" /\ CanAlign(mself.beacons, mother.beacons))
        => PrefilterSum(mself, mother) >= MIN_COMMON_DISTANCES

\* C9: if self & other returns a cloud with orientation r and position p, then
\* other & self returns a cloud whose orientation is the inverse of r and whose
\* position is the inverse-transformed negation of p.
C9_Symmetry ==
    (mpc = "reversed" /\ mres # None) =>
        /\ mrev # None
        /\ \E o, q \in 1..NOR :
              /\ mres[1].beacons = Transform(mself.beacons, o, mres[1].position)
              /\ mrev[1].beacons = Transform(mother.beacons, q, mrev[1].position)
              /\ Compose(ROTATIONS[o], ROTATIONS[q]) = Identity3
              /\ Add(Apply(ROTATIONS[q], mres[1].position), mrev[1].position) = Zero3

\* C10: a cloud of n >= 12 distinct beacons matched against itself returns a match
\* in which all n beacons coincide: the returned beacons are its own beacons.
C10_SelfMatch ==
    (/\ Returned
     /\ mself.beacons = mother.beacons
     /\ Len(mself.beacons) >= MIN_BEACONS_IN_COMMON
     /\ DistinctPoints(mself.beacons)) =>
        /\ mres # None
        /\ Range(mres[1].beacons) = Range(mself.beacons)

-----------------------------------------------------------------------------
(* Properties of the alignment driver *)

Running == pc \in {"loop", "done"}

\* placed is the input cloud turned by one table entry and moved by placed.position
PlacedImage(placed, input) ==
    \E o \in 1..NOR : placed.beacons = Transform(input.beacons, o, placed.position)

\* C3: at every step of positioned_scanners the placed and the queued clouds
\* together number the input clouds, every input cloud being behind exactly one
\* of them; at termination the queue is empty and every input cloud has exactly
\* one placed representative, which is that cloud turned and moved.
C3_Placement ==
    /\ Running =>
          /\ Len(positioned) + Len(to_position) = Len(scanners)
          /\ Len(origin) = Len(positioned) /\ Len(queued) = Len(to_position)
          /\ \A n \in DOMAIN scanners :
                Cardinality({k \in DOMAIN origin : origin[k] = n})
                    + Cardinality({k \in DOMAIN queued : queued[k] = n}) = 1
          /\ \A k \in DOMAIN to_position : to_position[k] = scanners[queued[k]]
    /\ pc = "done" =>
          /\ to_position = <<>>
          /\ \A n \in DOMAIN scanners :
                Cardinality({k \in DOMAIN positioned : origin[k] = n}) = 1
          /\ \A k \in DOMAIN positioned : PlacedImage(positioned[k], scanners[origin[k]])

\* three clouds placed, the third input before the second: it went back to the queue
C3_Witness ==
    /\ pc = "done" /\ Len(positioned) = 3
    /\ origin = <<1, 3, 2>>
    /\ positioned[2].position # Zero3 /\ positioned[3].position # Zero3

\* C4: every placed cloud but the seed is a result of the matcher applied to its
\* input cloud and a cloud before it in the placed list, and has at least 12
\* beacons in common with that cloud.
C4_PlacedMatchesEarlier ==
    Running =>
        \A k \in DOMAIN positioned : k > 1 =>
            /\ parent[k] \in 1..(k - 1)
            /\ Some(positioned[k]) \in And(scanners[origin[k]], positioned[parent[k]])
            /\ Cardinality(Range(positioned[k].beacons)
                               \cap Range(positioned[parent[k]].beacons))
                   >= MIN_BEACONS_IN_COMMON

\* a cloud placed against a placed cloud that is not the seed, with exactly 12
\* beacons in common, after failing against the seed
C4_Witness ==
    /\ Running /\ Len(positioned) = 3
    /\ parent[3] = 2
    /\ Cardinality(Range(positioned[3].beacons) \cap Range(positioned[2].beacons))
           = MIN_BEACONS_IN_COMMON
    /\ Cardinality(Range(positioned[3].beacons) \cap Range(positioned[1].beacons))
           < MIN_BEACONS_IN_COMMON

\* the pairs of input clouds of which some table entry and translation make 12
\* beacons coincide
Overlaps ==
    {e \in (DOMAIN scanners) \X (DOMAIN scanners) :
        e[1] < e[2] /\ CanAlign(scanners[e[1]].beacons, scanners[e[2]].beacons)}

\* S and the inputs joined to one of S by a pair of E
Grow(S, E) == S \cup {j \in DOMAIN scanners : \E i \in S : <<i, j>> \in E \/ <<j, i>> \in E}

RECURSIVE Component(_, _)
Component(S, E) == IF Grow(S, E) = S THEN S ELSE Component(Grow(S, E), E)

\* the graph joining overlapping input clouds is connected
ConnectedInput == LET E == Overlaps IN Component({1}, E) = DOMAIN scanners

\* C5: on input whose overlap graph is not connected the driver does not go on
\* after a full pass over the queue with no successful match: when as many
\* consecutive iterations as there are queued clouds have placed nothing, it has
\* stopped with an unsolvable-input condition.
C5_DetectsNonProgress ==
    (to_position # <<>> /\ misses >= Len(to_position) /\ ~ConnectedInput)
        => pc = "unsolvable"

\* C6: started on input whose overlap graph is connected, positioned_scanners
\* eventually empties the queue and returns.
C6_Termination == (pc = "start" /\ ConnectedInput) ~> (pc = "done")

\* C7: a run over the same clouds with another cloud as the seed ends with the
\* same number of distinct beacons and the same maximum distance between scanners.
C7_OriginIndependence ==
    (pc = "done" /\ run = 2) => Summary(positioned) = first_run

\* one iteration of the driver loop, seen from outside: the candidate is the head
\* of the queue; either it is requeued at the tail, unchanged, after every placed
\* cloud returned None, or the result of matching it against the first placed
\* cloud that does not return None is appended to the placed list
OrderedIteration ==
    LET candidate == Head(to_position)
    IN \/ /\ positioned' = positioned
          /\ to_position' = Append(Tail(to_position), candidate)
          /\ \A j \in DOMAIN positioned : None \in And(candidate, positioned[j])
       \/ /\ Len(positioned') = Len(positioned) + 1
          /\ SubSeq(positioned', 1, Len(positioned)) = positioned
          /\ to_position' = Tail(to_position)
          /\ \E k \in DOMAIN positioned :
                /\ Some(positioned'[Len(positioned')]) \in And(candidate, positioned[k])
                /\ \A j \in 1..(k - 1) : And(candidate, positioned[j]) = {None}

\* C14: every iteration of the driver loop takes the head of the queue, tries
\* the placed clouds in list order, appends the result of the first match to
\* the placed list and tries no later cloud; without a match the unchanged
\* candidate goes to the tail of the queue.
C14_Ordering == [][LoopCondition => OrderedIteration]_vars

\* the second input failed against the seed and went behind the third; the third
\* was placed against the seed; the second then failed against the seed again and
\* was placed against the third
C14_Witness ==
    /\ Running /\ origin = <<1, 3, 2>> /\ parent = <<0, 1, 2>>
    /\ to_position = <<>> /\ misses = 0

\* what a step of one driver run leaves alone: the input clouds, the clouds
\* already placed, which stay at their places in the list, and the queued clouds,
\* which are input clouds; the first placed cloud is the first input cloud itself
FrameStep ==
    /\ run' = run =>
          /\ scanners' = scanners
          /\ Len(positioned') >= Len(positioned)
          /\ SubSeq(positioned', 1, Len(positioned)) = positioned
    /\ positioned' # <<>> =>
          /\ positioned'[1] = scanners'[1]
          /\ positioned'[1].beacons = scanners'[1].beacons
          /\ positioned'[1].position = Zero3
    /\ \A k \in DOMAIN to_position' : to_position'[k] = scanners'[queued'[k]]

\* C15: the first placed cloud is the first input cloud, untransformed and at
\* position (0,0,0), for the whole run; no step changes an input cloud, a queued
\* cloud or a cloud already placed, and the placed list only grows at its end.
C15_Frame == [][FrameStep]_vars

\* the end of a run over three clouds: the seed is the first input as given, the
\* other two are placed turned and moved while their inputs are as given
C15_Witness ==
    /\ pc = "done" /\ Len(positioned) = 3
    /\ positioned[1] = scanners[1]
    /\ \A k \in 2..3 : /\ positioned[k].beacons # scanners[origin[k]].beacons
                       /\ positioned[k].position # Zero3
                       /\ scanners[origin[k]].position = Zero3

-----------------------------------------------------------------------------
(* Properties of the distance derivation *)

\* C11: the distance map of a cloud turned by a table entry and moved by a
\* translation, beacons kept in order, has the same distance keys as the map of
\* the cloud itself and the same set of beacon indices at every key.
C11_DistancesInvariant ==
    dpc = "moved" =>
        /\ DOMAIN dist_moved = DOMAIN dist_orig
        /\ \A d \in DOMAIN dist_orig : Range(dist_moved[d]) = Range(dist_orig[d])

\* a cloud turned and moved, with a distance that more than one pair realises
C11_Witness ==
    /\ dpc = "moved"
    /\ dturn # IdentityIndex /\ dshift # Zero3
    /\ Transform(dorig, dturn, dshift) # dorig
    /\ \E d \in DOMAIN dist_orig : Len(dist_orig[d]) > 2
    /\ \E d \in DOMAIN dist_orig : Len(dist_orig[d]) = 2

-----------------------------------------------------------------------------
(* Properties of the A* search *)

Min(S) == CHOOSE x \in S : \A y \in S : x <= y

Cells(cav) == (0..(Width(cav) - 1)) \X (0..(Height(cav) - 1))

\* the cells one step up, down, left or right of p
Adjacent(cav, p) ==
    {q \in Cells(cav) : Abs(q[1] - p[1]) + Abs(q[2] - p[2]) = 1}

\* more than any path without a repeated cell can cost
Unreached(cav) == 9 * Width(cav) * Height(cav) + 1

\* the value the table d, a set of pairs <<cell, risk>>, has for cell p
Lookup(d, p) == (CHOOSE e \in d : e[1] = p)[2]

\* d holding for every cell the least risk of a path of at most m steps from
\* (0, 0) to it, the same table for paths of at most m + n steps
RECURSIVE Relax(_, _, _)
Relax(d, cav, n) ==
    IF n = 0 THEN d
    ELSE Relax({<<p, Min({Lookup(d, p)}
                         \cup {Lookup(d, q) + RiskAt(cav, p) : q \in Adjacent(cav, p)})>> :
                   p \in Cells(cav)},
               cav, n - 1)

\* the least sum of the risks of the cells entered, over the 4-connected paths
\* from (0, 0) to the target
MinRisk(cav) ==
    Lookup(Relax({<<p, IF p = <<0, 0>> THEN 0 ELSE Unreached(cav)>> : p \in Cells(cav)},
                 cav, Width(cav) * Height(cav)),
           Target(cav))

\* C12: lowest_total_risk returns the least total risk of a 4-connected path from
\* the top-left to the bottom-right cell, the start cell's risk not counted; it
\* returns when the target is popped, without expanding it, and never pops an
\* empty heap: the heap holds exactly the open nodes, and the loop is never left
\* without a result.
C12_LowestTotalRisk ==
    /\ apc \notin {"none", "error"}
    /\ apc = "returned" => total_risk = MinRisk(cavern)
    /\ apc = "loop" =>
          /\ open # {}
          /\ {e[3] : e \in pqueue} = open
          /\ Cardinality(pqueue) = Cardinality(open)
          /\ total_risk = -1
          /\ \A n \in closed : Pos(n) # Target(cavern)

\* a search whose result needs steps to the left: the only path of risk 10 runs
\* along rows 1, 3 and 5, and every path going right and down only enters a 9
C12_Witness ==
    /\ apc = "returned"
    /\ cavern = << <<1, 1, 1>>, <<9, 9, 1>>, <<1, 1, 1>>, <<1, 9, 9>>, <<1, 1, 1>> >>
    /\ total_risk = 10
    /\ Node(0, 2, 6) \in closed /\ Node(2, 2, 4) \in closed
    /\ pqueue # {}

====
